---------------------------- MODULE Spec2Model ----------------------------
(***************************************************************************)
(* ecs-local: run an ECS task definition as a local docker container.      *)
(*                                                                         *)
(* Part I models run() of main.go as a sequential pipeline, one action per *)
(* step of the function, with the outcome of every external call (config   *)
(* file, AWS APIs, docker) chosen nondeterministically.                    *)
(* Part II models the credential cache provider that main.go wraps around  *)
(* the session credentials (CredentialCacheProvider).                      *)
(*                                                                         *)
(* Strings whose characters the code inspects are sequences of one         *)
(* character strings; decoded token data is a sequence of byte values.     *)
(***************************************************************************)
EXTENDS Integers, Sequences, FiniteSets, TLC

VARIABLES pc, cfgVals, taskdef, idIn, sess, task, token, data, auth,
          actionIn, command, dockerArgs, assume, roleCreds, mounts, envs,
          child, childStatus, exitCode, errOut, failedAt

VARIABLES now, cacheFile, cpc, ckey, fresh, tmpFile, got, hit,
          chainCalls, lockHolder

pipeVars == <<pc, cfgVals, taskdef, idIn, sess, task, token, data, auth,
              actionIn, command, dockerArgs, assume, roleCreds, mounts, envs,
              child, childStatus, exitCode, errOut, failedAt>>

cacheVars == <<now, cacheFile, cpc, ckey, fresh, tmpFile, got, hit,
               chainCalls, lockHolder>>

vars == <<pipeVars, cacheVars>>

None == "<none>"

------------------------------------------------------------------------------
(* Bounds of the model *)

MaxMounts == 2

MaxEnvs == 2

MaxChildExit == 1

------------------------------------------------------------------------------
(* Exit codes, main.go const block: iota is 3 on the exitCodeFlagParseError  *)
(* line and 4 on the next one.                                              *)

exitCodeOk == 0

exitCodeError == 1

exitCodeDockerError == 2

exitCodeFlagParseError == 10 + 3

exitCodeAWSError == 10 + 4

(* A Go program that panics terminates with exit status 2 and a trace on    *)
(* the error stream.                                                        *)
goPanicExit == 2

------------------------------------------------------------------------------
(* String helpers, computed the way the Go library computes them *)

(* index of the first occurrence of character c in s, 0 when absent *)
IndexOf(s, c) ==
    IF \E i \in 1..Len(s) : s[i] = c
    THEN CHOOSE i \in 1..Len(s) : s[i] = c /\ \A j \in 1..(i-1) : s[j] # c
    ELSE 0

(* strings.Split(s, sep) for a one character separator: never empty,        *)
(* Split("", sep) = [""]                                                    *)
RECURSIVE Split(_, _)
Split(s, c) ==
    LET i == IndexOf(s, c)
    IN  IF i = 0 THEN <<s>>
        ELSE <<SubSeq(s, 1, i-1)>> \o Split(SubSeq(s, i+1, Len(s)), c)

SplitEvery(s, c) == Split(s, c)

(* strings.SplitN(s, sep, 2) *)
SplitN2(s, c) ==
    LET i == IndexOf(s, c)
    IN  IF i = 0 THEN <<s>>
        ELSE <<SubSeq(s, 1, i-1), SubSeq(s, i+1, Len(s))>>

(* fmt.Sprintf("%s<c>%s", a, b) *)
Sprintf2(a, c, b) == a \o <<c>> \o b

------------------------------------------------------------------------------
(* base64.StdEncoding.DecodeString *)

B64Chars ==
    << "A","B","C","D","E","F","G","H","I","J","K","L","M","N","O","P",
       "Q","R","S","T","U","V","W","X","Y","Z","a","b","c","d","e","f",
       "g","h","i","j","k","l","m","n","o","p","q","r","s","t","u","v",
       "w","x","y","z","0","1","2","3","4","5","6","7","8","9","+","/" >>

IsB64(c) == \E i \in 1..64 : B64Chars[i] = c

B64Val(c) == (CHOOSE i \in 1..64 : B64Chars[i] = c) - 1

(* one quantum of four characters; last is TRUE for the final quantum *)
DecodeQuad(q, last) ==
    LET pad2 == q[3] = "=" /\ q[4] = "="
        pad1 == q[3] # "=" /\ q[4] = "="
        v3   == IF q[3] = "=" THEN 0 ELSE B64Val(q[3])
        v4   == IF q[4] = "=" THEN 0 ELSE B64Val(q[4])
        n    == B64Val(q[1]) * 262144 + B64Val(q[2]) * 4096 + v3 * 64 + v4
        b1   == n \div 65536
        b2   == (n \div 256) % 256
        b3   == n % 256
    IN  IF ~ (IsB64(q[1]) /\ IsB64(q[2])) THEN [ok |-> FALSE, bytes |-> <<>>]
        ELSE IF pad2 THEN [ok |-> last, bytes |-> <<b1>>]
        ELSE IF ~ IsB64(q[3]) THEN [ok |-> FALSE, bytes |-> <<>>]
        ELSE IF pad1 THEN [ok |-> last, bytes |-> <<b1, b2>>]
        ELSE IF ~ IsB64(q[4]) THEN [ok |-> FALSE, bytes |-> <<>>]
        ELSE [ok |-> TRUE, bytes |-> <<b1, b2, b3>>]

RECURSIVE Base64Decode(_)
Base64Decode(s) ==
    IF s = <<>> THEN [ok |-> TRUE, bytes |-> <<>>]
    ELSE IF Len(s) < 4 THEN [ok |-> FALSE, bytes |-> <<>>]
    ELSE LET q    == DecodeQuad(SubSeq(s, 1, 4), Len(s) = 4)
             rest == Base64Decode(SubSeq(s, 5, Len(s)))
         IN  IF q.ok /\ rest.ok
             THEN [ok |-> TRUE, bytes |-> q.bytes \o rest.bytes]
             ELSE [ok |-> FALSE, bytes |-> <<>>]

Colon == 58

------------------------------------------------------------------------------
(* Values the run can meet *)

SeqsUpTo(S, n) == UNION { [1..k -> S] : k \in 0..n }

(* viper.SetDefault("action", "bundle exec rails c") *)
DefaultAction ==
    << "b","u","n","d","l","e"," ","e","x","e","c"," ","r","a","i","l","s"," ","c" >>

DefaultProfile == "default"

DefaultRegion == "us-east-1"

(* -a given (flag or config file) with this text, or not given at all *)
ActionInputs ==
    { [given |-> FALSE, val |-> <<>>],
      [given |-> TRUE,  val |-> <<>>],
      [given |-> TRUE,  val |-> <<"s","h">>] }

(* -m values: "/a:/b", "a:b:c" and the colon-less "nc" *)
MountSpecs == { <<"/","a",":","/","b">>, <<"a",":","b",":","c">>, <<"n","c">> }

(* -e values: "F=b", "F=b=z" and "F" *)
EnvSpecs == { <<"F","=","b">>, <<"F","=","b","=","z">>, <<"F">> }

Image == << "r","e","p","o","/","a","p","p",":","1" >>

BinApp == << "b","i","n","/","a","p","p" >>

ContainerCommands == { <<>>, <<BinApp>> }

ContainerEnvs ==
    { <<>>,
      << [Name |-> <<"A">>, Value |-> <<"1">>],
         [Name |-> <<"B">>, Value |-> <<"2">>] >> }

RoleArns == { None, "arn:role/task" }

Tasks ==
    [ Image : {Image}, Command : ContainerCommands,
      Environment : ContainerEnvs, TaskRoleArn : RoleArns ]

NoTask ==
    [ Image |-> <<>>, Command |-> <<>>, Environment |-> <<>>, TaskRoleArn |-> None ]

(* authorization tokens: base64 of "u:p", of "up", of "u:p:q", and one that  *)
(* is not base64                                                            *)
Tokens ==
    { <<"d","T","p","w">>, <<"d","X","A","=">>,
      <<"d","T","p","w","O","n","E","=">>, <<"d","!","p","w">> }

NoAuth == [ Username |-> <<>>, Password |-> <<>>, set |-> FALSE ]

NoCreds == [ ok |-> FALSE, AccessKeyId |-> <<>>, SecretAccessKey |-> <<>>,
             SessionToken |-> <<>> ]

StsCreds == [ ok |-> TRUE, AccessKeyId |-> <<"A","K">>,
              SecretAccessKey |-> <<"S","K">>, SessionToken |-> <<"S","T">> ]

NoChild == [ launched |-> FALSE, started |-> FALSE, argv |-> <<>> ]

NoIdIn == [ flagProfile |-> None, flagRegion |-> None,
            envProfile |-> None, envRegion |-> None ]

(* what the command line and the process environment can say about the      *)
(* identity: -p/-r given together or not at all, AWS_PROFILE and AWS_REGION  *)
(* each set or not                                                          *)
IdInputs ==
    { [ flagProfile |-> f[1], flagRegion |-> f[2],
        envProfile |-> ep, envRegion |-> er ] :
        f \in { <<None, None>>, <<"flag-profile", "flag-region">> },
        ep \in { None, "env-profile" }, er \in { None, "env-region" } }

NoCfg == [ profile |-> None, region |-> None ]

CfgFiles == { NoCfg, [ profile |-> "cfg-profile", region |-> "cfg-region" ] }

NoSess == [ Profile |-> None, Region |-> None ]

Tok_run == <<"r","u","n">>

Tok_it == <<"-","i","t">>

Tok_rm == <<"-","-","r","m">>

Tok_e == <<"-","e">>

Tok_v == <<"-","v">>

Key_AccessKeyId == << "A","W","S","_","A","C","C","E","S","S","_","K","E","Y","_","I","D" >>

Key_SecretAccessKey ==
    << "A","W","S","_","S","E","C","R","E","T","_","A","C","C","E","S","S","_","K","E","Y" >>

Key_SessionToken ==
    << "A","W","S","_","S","E","S","S","I","O","N","_","T","O","K","E","N" >>

------------------------------------------------------------------------------
(* Part I: run() *)

PipeInit ==
    /\ pc = "config"
    /\ cfgVals = NoCfg
    /\ taskdef = ""
    /\ idIn = NoIdIn
    /\ sess = NoSess
    /\ task = NoTask
    /\ token = <<>>
    /\ data = <<>>
    /\ auth = NoAuth
    /\ actionIn = [given |-> FALSE, val |-> <<>>]
    /\ command = <<>>
    /\ dockerArgs = <<>>
    /\ assume = "pending"
    /\ roleCreds = NoCreds
    /\ mounts = <<>>
    /\ envs = <<>>
    /\ child = NoChild
    /\ childStatus = 0
    /\ exitCode = exitCodeOk
    /\ errOut = "none"
    /\ failedAt = "none"

(* os.Exit(code) at step `at`; err tells what reached the error stream *)
Exit(code, at, err) ==
    /\ pc' = "exited"
    /\ exitCode' = code
    /\ failedAt' = at
    /\ errOut' = err

(* a runtime panic at step `at` *)
Panic(at) ==
    /\ pc' = "panicked"
    /\ exitCode' = goPanicExit
    /\ failedAt' = at
    /\ errOut' = "panic"

Goto(next) ==
    /\ pc' = next
    /\ UNCHANGED <<exitCode, errOut, failedAt>>

(* log.Fatal: the message, then exit status 1 *)
logFatalExit == 1

(* viper.GetBool("write") == true: save the flags and exit; log.Fatal when  *)
(* the working directory cannot be found                                    *)
WriteConfig ==
    /\ pc = "config"
    /\ \/ Exit(exitCodeOk, "none", "none")
       \/ Exit(logFatalExit, "getwd", "message")
    /\ UNCHANGED <<cfgVals, taskdef, idIn, sess, task, token, data, auth,
                   actionIn, command, dockerArgs, assume, roleCreds,
                   mounts, envs, child, childStatus>>
    /\ UNCHANGED cacheVars

(* read the config file named by -c, or the default one when it exists;     *)
(* a read failure is logged at debug level only                             *)
ReadConfig ==
    /\ pc = "config"
    /\ \/ /\ \E c \in CfgFiles : cfgVals' = c
          /\ Goto("taskdef")
       \/ /\ UNCHANGED cfgVals
          /\ Exit(exitCodeError, "config", "none")
    /\ UNCHANGED <<taskdef, idIn, sess, task, token, data, auth, actionIn,
                   command, dockerArgs, assume, roleCreds, mounts, envs,
                   child, childStatus>>
    /\ UNCHANGED cacheVars

(* no task definition named: print the help and exit *)
CheckTaskdef ==
    /\ pc = "taskdef"
    /\ \E t \in { "", "web" } :
          /\ taskdef' = t
          /\ IF t = "" THEN Exit(exitCodeOk, "none", "none")
                       ELSE Goto("identity")
    /\ UNCHANGED <<cfgVals, idIn, sess, task, token, data, auth, actionIn,
                   command, dockerArgs, assume, roleCreds, mounts, envs,
                   child, childStatus>>
    /\ UNCHANGED cacheVars

(* viper.GetString(key): the flag when given, else the config file's value, *)
(* else the default                                                         *)
ViperGet(flag, cfg, default) ==
    IF flag # None THEN flag ELSE IF cfg # None THEN cfg ELSE default

SelectIdentityNoEnv(viperValue, envValue) == viperValue

(* awsRegion / awsProfile: viper's value, replaced by the environment       *)
(* variable whenever that is present                                        *)
SelectIdentity(viperValue, envValue) ==
    IF envValue # None THEN envValue ELSE viperValue

Identity ==
    /\ pc = "identity"
    /\ \E in \in IdInputs :
          /\ idIn' = in
          /\ sess' = [ Profile |-> SelectIdentity(
                           ViperGet(in.flagProfile, cfgVals.profile, DefaultProfile),
                           in.envProfile),
                       Region  |-> SelectIdentity(
                           ViperGet(in.flagRegion, cfgVals.region, DefaultRegion),
                           in.envRegion) ]
    /\ Goto("describe")
    /\ UNCHANGED <<cfgVals, taskdef, task, token, data, auth, actionIn,
                   command, dockerArgs, assume, roleCreds, mounts, envs,
                   child, childStatus>>
    /\ UNCHANGED cacheVars

(* session.Must panics when the session cannot be built *)
SessionFails ==
    /\ pc = "identity"
    /\ Panic("session")
    /\ UNCHANGED <<cfgVals, taskdef, idIn, sess, task, token, data, auth,
                   actionIn, command, dockerArgs, assume, roleCreds,
                   mounts, envs, child, childStatus>>
    /\ UNCHANGED cacheVars

DescribeFailCodeGeneric == exitCodeError

DescribeFailCode == exitCodeAWSError

DescribeTaskDefinition ==
    /\ pc = "describe"
    /\ \/ /\ \E t \in Tasks : task' = t
          /\ Goto("ecrToken")
       \/ /\ UNCHANGED task
          /\ Exit(DescribeFailCode, "describe", "message")
    /\ UNCHANGED <<cfgVals, taskdef, idIn, sess, token, data, auth,
                   actionIn, command, dockerArgs, assume, roleCreds,
                   mounts, envs, child, childStatus>>
    /\ UNCHANGED cacheVars

GetAuthorizationToken ==
    /\ pc = "ecrToken"
    /\ \/ /\ \E t \in Tokens : token' = t
          /\ Goto("decode")
       \/ /\ UNCHANGED token
          /\ Exit(exitCodeDockerError, "token", "message")
    /\ UNCHANGED <<cfgVals, taskdef, idIn, sess, task, data, auth,
                   actionIn, command, dockerArgs, assume, roleCreds,
                   mounts, envs, child, childStatus>>
    /\ UNCHANGED cacheVars

DecodeToken ==
    /\ pc = "decode"
    /\ LET r == Base64Decode(token)
       IN  IF r.ok
           THEN data' = r.bytes /\ Goto("split")
           ELSE UNCHANGED data /\ Exit(exitCodeDockerError, "decode", "message")
    /\ UNCHANGED <<cfgVals, taskdef, idIn, sess, task, token, auth,
                   actionIn, command, dockerArgs, assume, roleCreds,
                   mounts, envs, child, childStatus>>
    /\ UNCHANGED cacheVars

(* userpass := strings.Split(string(data), ":") *)
UserPass(d) == Split(d, Colon)

(* with any other number of parts than two the code calls err.Error() on    *)
(* the nil err left by the successful decode                                *)
SplitToken ==
    /\ pc = "split"
    /\ LET userpass == UserPass(data)
       IN  IF Len(userpass) # 2
           THEN UNCHANGED auth /\ Panic("split")
           ELSE /\ auth' = [ Username |-> userpass[1], Password |-> userpass[2],
                             set |-> TRUE ]
                /\ Goto("pull")
    /\ UNCHANGED <<cfgVals, taskdef, idIn, sess, task, token, data,
                   actionIn, command, dockerArgs, assume, roleCreds,
                   mounts, envs, child, childStatus>>
    /\ UNCHANGED cacheVars

(* docker.NewClient's error is dropped: a nil client panics in PullImage *)
PullImage ==
    /\ pc = "pull"
    /\ \/ Goto("command")
       \/ Exit(exitCodeDockerError, "pull", "message")
       \/ Panic("client")
    /\ UNCHANGED <<cfgVals, taskdef, idIn, sess, task, token, data, auth,
                   actionIn, command, dockerArgs, assume, roleCreds,
                   mounts, envs, child, childStatus>>
    /\ UNCHANGED cacheVars

(* command := strings.Split(viper.GetString("action"), " "), and the        *)
(* container definition's command when that has no element                  *)
CommandOf(action, containerCommand) ==
    LET c == Split(action, " ")
    IN  IF Len(c) = 0 THEN containerCommand ELSE c

SetCommand ==
    /\ pc = "command"
    /\ dockerArgs' = <<Tok_run, Tok_it, Tok_rm>>
    /\ \E a \in ActionInputs :
          /\ actionIn' = a
          /\ command' = CommandOf(IF a.given THEN a.val ELSE DefaultAction,
                                  task.Command)
    /\ Goto("containerEnv")
    /\ UNCHANGED <<cfgVals, taskdef, idIn, sess, task, token, data, auth,
                   assume, roleCreds, mounts, envs, child, childStatus>>
    /\ UNCHANGED cacheVars

RECURSIVE EnvironmentArgs(_)
EnvironmentArgs(es) ==
    IF es = <<>> THEN <<>>
    ELSE <<Tok_e, Sprintf2(Head(es).Name, "=", Head(es).Value)>>
         \o EnvironmentArgs(Tail(es))

AppendContainerEnv ==
    /\ pc = "containerEnv"
    /\ dockerArgs' = dockerArgs \o EnvironmentArgs(task.Environment)
    /\ Goto("role")
    /\ UNCHANGED <<cfgVals, taskdef, idIn, sess, task, token, data, auth,
                   actionIn, command, assume, roleCreds, mounts, envs,
                   child, childStatus>>
    /\ UNCHANGED cacheVars

RoleArgs(c) ==
    << Tok_e, Sprintf2(Key_AccessKeyId, "=", c.AccessKeyId),
       Tok_e, Sprintf2(Key_SecretAccessKey, "=", c.SecretAccessKey),
       Tok_e, Sprintf2(Key_SessionToken, "=", c.SessionToken) >>

(* attempt to assume the task role; a failure is only logged *)
AssumeRole ==
    /\ pc = "role"
    /\ \/ /\ task.TaskRoleArn = None
          /\ assume' = "norole"
          /\ UNCHANGED <<roleCreds, dockerArgs>>
       \/ /\ task.TaskRoleArn # None
          /\ assume' = "failed"
          /\ UNCHANGED <<roleCreds, dockerArgs>>
       \/ /\ task.TaskRoleArn # None
          /\ assume' = "ok"
          /\ roleCreds' = StsCreds
          /\ dockerArgs' = dockerArgs \o RoleArgs(StsCreds)
    /\ Goto("mounts")
    /\ UNCHANGED <<cfgVals, taskdef, idIn, sess, task, token, data, auth,
                   actionIn, command, mounts, envs, child, childStatus>>
    /\ UNCHANGED cacheVars

(* the loop over mounts (or envs): flag, parts[0] sep parts[1] for each;    *)
(* parts[1] of a spec without the separator is out of range, and the args   *)
(* appended before it stay appended                                         *)
RECURSIVE PairArgs(_, _, _)
PairArgs(specs, sep, flag) ==
    IF specs = <<>> THEN [ok |-> TRUE, args |-> <<>>]
    ELSE LET parts == SplitN2(Head(specs), sep)
         IN  IF Len(parts) < 2 THEN [ok |-> FALSE, args |-> <<>>]
             ELSE LET rest == PairArgs(Tail(specs), sep, flag)
                  IN  [ok   |-> rest.ok,
                       args |-> <<flag, Sprintf2(parts[1], sep, parts[2])>>
                                \o rest.args]

ParseMounts ==
    /\ pc = "mounts"
    /\ \E ms \in SeqsUpTo(MountSpecs, MaxMounts) :
          LET r == PairArgs(ms, ":", Tok_v)
          IN  /\ mounts' = ms
              /\ dockerArgs' = dockerArgs \o r.args
              /\ IF r.ok THEN Goto("envs") ELSE Panic("mounts")
    /\ UNCHANGED <<cfgVals, taskdef, idIn, sess, task, token, data, auth,
                   actionIn, command, assume, roleCreds, envs, child,
                   childStatus>>
    /\ UNCHANGED cacheVars

ParseEnvs ==
    /\ pc = "envs"
    /\ \E es \in SeqsUpTo(EnvSpecs, MaxEnvs) :
          LET r == PairArgs(es, "=", Tok_e)
          IN  /\ envs' = es
              /\ dockerArgs' = dockerArgs \o r.args
              /\ IF r.ok THEN Goto("start") ELSE Panic("envs")
    /\ UNCHANGED <<cfgVals, taskdef, idIn, sess, task, token, data, auth,
                   actionIn, command, assume, roleCreds, mounts, child,
                   childStatus>>
    /\ UNCHANGED cacheVars

(* dockerArgs = append(dockerArgs, *image); exec.Command("docker",          *)
(* append(dockerArgs, command...)...).Start(), whose error is dropped       *)
StartDocker ==
    /\ pc = "start"
    /\ dockerArgs' = Append(dockerArgs, task.Image)
    /\ \E ok \in BOOLEAN :
          child' = [ launched |-> TRUE, started |-> ok,
                     argv |-> Append(dockerArgs, task.Image) \o command ]
    /\ Goto("wait")
    /\ UNCHANGED <<cfgVals, taskdef, idIn, sess, task, token, data, auth,
                   actionIn, command, assume, roleCreds, mounts, envs,
                   childStatus>>
    /\ UNCHANGED cacheVars

(* dockerCmd.Wait(), whose result is dropped; run and main return *)
WaitDocker ==
    /\ pc = "wait"
    /\ IF child.started
       THEN \E s \in 0..MaxChildExit : childStatus' = s
       ELSE childStatus' = -1
    /\ Exit(exitCodeOk, "none", "none")
    /\ UNCHANGED <<cfgVals, taskdef, idIn, sess, task, token, data, auth,
                   actionIn, command, dockerArgs, assume, roleCreds,
                   mounts, envs, child>>
    /\ UNCHANGED cacheVars

PipeNext ==
    \/ WriteConfig
    \/ ReadConfig
    \/ CheckTaskdef
    \/ Identity
    \/ SessionFails
    \/ DescribeTaskDefinition
    \/ GetAuthorizationToken
    \/ DecodeToken
    \/ SplitToken
    \/ PullImage
    \/ SetCommand
    \/ AppendContainerEnv
    \/ AssumeRole
    \/ ParseMounts
    \/ ParseEnvs
    \/ StartDocker
    \/ WaitDocker

------------------------------------------------------------------------------
(* Part II: the credential cache provider, shared by concurrent invocations *)

NumProcs == 2

MaxTime == 1

(* Time is counted in units of the safety margin.                           *)
(* safety margin subtracted from a record's expiry: one unit *)
Margin == 1

(* lifetime of the credentials the provider chain hands out                 *)
(* (stscreds.DefaultDuration, one hour): two units                          *)
Duration == 2

Procs == 1..NumProcs

(* cache key: the profile, plus the role ARN of a role session *)
CacheKey(profile, roleArn) == <<profile, roleArn>>

Keys == { CacheKey(DefaultProfile, None), CacheKey(DefaultProfile, "arn:role/task") }

Absent == [ st |-> "absent", expiry |-> 0, by |-> 0 ]

Partial == [ st |-> "partial", expiry |-> 0, by |-> 0 ]

Full(e, p) == [ st |-> "full", expiry |-> e, by |-> p ]

CacheProcsIdle ==
    /\ now = 0
    /\ cpc = [p \in Procs |-> "start"]
    /\ ckey = [p \in Procs |-> CacheKey(DefaultProfile, None)]
    /\ fresh = [p \in Procs |-> Absent]
    /\ tmpFile = [p \in Procs |-> Absent]
    /\ got = [p \in Procs |-> Absent]
    /\ hit = [p \in Procs |-> FALSE]
    /\ chainCalls = [p \in Procs |-> 0]
    /\ lockHolder = 0

CacheIdle ==
    /\ CacheProcsIdle
    /\ cacheFile = [k \in Keys |-> Absent]

(* the durable file starts empty or holds records of earlier runs *)
CacheInit ==
    /\ CacheProcsIdle
    /\ cacheFile \in [Keys -> {Absent, Full(Duration, 0)}]

IsFreshNoMargin(rec, t) == rec.st = "full" /\ rec.expiry > t

(* a record is usable while now < expiry - margin; a missing or corrupt     *)
(* record is a miss                                                         *)
IsFresh(rec, t) == rec.st = "full" /\ rec.expiry - Margin > t

(* step 1: compute the key and open the cache file *)
LockRead(p) ==
    /\ cpc[p] = "start"
    /\ lockHolder = 0
    /\ lockHolder' = p
    /\ \E k \in Keys : ckey' = [ckey EXCEPT ![p] = k]
    /\ cpc' = [cpc EXCEPT ![p] = "reading"]
    /\ UNCHANGED <<now, cacheFile, fresh, tmpFile, got, hit, chainCalls>>
    /\ UNCHANGED pipeVars

(* step 2: read the record and close the file; a fresh record is returned   *)
(* at once                                                                  *)
ReadCache(p) ==
    /\ cpc[p] = "reading"
    /\ lockHolder' = 0
    /\ IF IsFresh(cacheFile[ckey[p]], now)
       THEN /\ got' = [got EXCEPT ![p] = cacheFile[ckey[p]]]
            /\ hit' = [hit EXCEPT ![p] = TRUE]
            /\ cpc' = [cpc EXCEPT ![p] = "done"]
       ELSE /\ cpc' = [cpc EXCEPT ![p] = "chain"]
            /\ UNCHANGED <<got, hit>>
    /\ UNCHANGED <<now, cacheFile, ckey, fresh, tmpFile, chainCalls>>
    /\ UNCHANGED pipeVars

(* step 3: the wrapped provider chain answers (maybe after a prompt) or     *)
(* fails                                                                    *)
CallChain(p) ==
    /\ cpc[p] = "chain"
    /\ chainCalls' = [chainCalls EXCEPT ![p] = @ + 1]
    /\ \/ /\ fresh' = [fresh EXCEPT ![p] = Full(now + Duration, p)]
          /\ cpc' = [cpc EXCEPT ![p] = "persist"]
       \/ /\ cpc' = [cpc EXCEPT ![p] = "failed"]
          /\ UNCHANGED fresh
    /\ UNCHANGED <<now, cacheFile, ckey, tmpFile, got, hit, lockHolder>>
    /\ UNCHANGED pipeVars

PersistBeginInPlace(p) ==
    /\ cpc[p] = "persist"
    /\ cacheFile' = [cacheFile EXCEPT ![ckey[p]] = Partial]
    /\ cpc' = [cpc EXCEPT ![p] = "writing"]
    /\ UNCHANGED <<now, tmpFile, ckey, fresh, got, hit, chainCalls, lockHolder>>
    /\ UNCHANGED pipeVars

(* step 4: the record is written to a temporary file of the invocation      *)
PersistBegin(p) ==
    /\ cpc[p] = "persist"
    /\ tmpFile' = [tmpFile EXCEPT ![p] = Partial]
    /\ cpc' = [cpc EXCEPT ![p] = "writing"]
    /\ UNCHANGED <<now, cacheFile, ckey, fresh, got, hit, chainCalls, lockHolder>>
    /\ UNCHANGED pipeVars

PersistEnd(p) ==
    /\ cpc[p] = "writing"
    /\ tmpFile' = [tmpFile EXCEPT ![p] = fresh[p]]
    /\ cpc' = [cpc EXCEPT ![p] = "rename"]
    /\ UNCHANGED <<now, cacheFile, ckey, fresh, got, hit, chainCalls, lockHolder>>
    /\ UNCHANGED pipeVars

(* the temporary file replaces the cache record in one step, and the fresh  *)
(* record is returned                                                       *)
Rename(p) ==
    /\ cpc[p] = "rename"
    /\ cacheFile' = [cacheFile EXCEPT ![ckey[p]] = tmpFile[p]]
    /\ tmpFile' = [tmpFile EXCEPT ![p] = Absent]
    /\ got' = [got EXCEPT ![p] = fresh[p]]
    /\ cpc' = [cpc EXCEPT ![p] = "done"]
    /\ UNCHANGED <<now, ckey, fresh, hit, chainCalls, lockHolder>>
    /\ UNCHANGED pipeVars

Tick ==
    /\ now < MaxTime
    /\ now' = now + 1
    /\ UNCHANGED <<cacheFile, cpc, ckey, fresh, tmpFile, got, hit,
                   chainCalls, lockHolder>>
    /\ UNCHANGED pipeVars

Resolve(p) ==
    \/ LockRead(p)
    \/ ReadCache(p)
    \/ CallChain(p)
    \/ PersistBegin(p)
    \/ PersistEnd(p)
    \/ Rename(p)

CacheNext ==
    \/ \E p \in Procs : LockRead(p)
    \/ \E p \in Procs : ReadCache(p)
    \/ \E p \in Procs : CallChain(p)
    \/ \E p \in Procs : PersistBegin(p)
    \/ \E p \in Procs : PersistEnd(p)
    \/ \E p \in Procs : Rename(p)
    \/ Tick

------------------------------------------------------------------------------
(* Specifications *)

Init == PipeInit /\ CacheIdle

Next == PipeNext

Spec == Init /\ [][Next]_vars

CacheSpecInit == PipeInit /\ CacheInit

(* concurrent invocations of the cache provider; an invocation that can     *)
(* take a step eventually takes one                                         *)
CacheSpec ==
    /\ CacheSpecInit
    /\ [][CacheNext]_vars
    /\ \A p \in Procs : WF_vars(Resolve(p))

------------------------------------------------------------------------------
(* Properties of run() *)

Finished == pc \in { "exited", "panicked" }

Failed == Finished /\ failedAt # "none"

HasPrefix(s, pre) == Len(s) >= Len(pre) /\ SubSeq(s, 1, Len(pre)) = pre

IsRoleEntry(a) ==
    \/ HasPrefix(a, Append(Key_AccessKeyId, "="))
    \/ HasPrefix(a, Append(Key_SecretAccessKey, "="))
    \/ HasPrefix(a, Append(Key_SessionToken, "="))

Before(s, c) == SubSeq(s, 1, IndexOf(s, c) - 1)

After(s, c) == SubSeq(s, IndexOf(s, c) + 1, Len(s))

(* C1: a run whose task has a role and whose assume-role call failed does   *)
(* not end in a fatal error: it launches the container runtime, and the     *)
(* arguments it passes hold no AWS_ACCESS_KEY_ID, AWS_SECRET_ACCESS_KEY or  *)
(* AWS_SESSION_TOKEN entry.                                                 *)
C1_AssumeFailureStillLaunches ==
    (Finished /\ assume = "failed") =>
        /\ pc = "exited"
        /\ failedAt = "none"
        /\ child.launched
        /\ \A i \in 1..Len(child.argv) : ~ IsRoleEntry(child.argv[i])

UserCommandGiven == actionIn.given /\ actionIn.val # <<>>

(* C2: the command passed to the runtime is the user's command when one is  *)
(* given, and the first container definition's command (empty when it has   *)
(* none) otherwise.                                                         *)
C2_CommandSelection ==
    child.launched =>
        SubSeq(child.argv, Len(dockerArgs) + 1, Len(child.argv))
            = IF UserCommandGiven THEN Split(actionIn.val, " ")
                                  ELSE task.Command

(* C3: the tool exits with the exit status of the container runtime child,  *)
(* and with a failure status when the runtime could not be started.         *)
C3_ExitStatusPropagated ==
    (pc = "exited" /\ child.launched) =>
        IF child.started THEN exitCode = childStatus
                         ELSE exitCode # exitCodeOk

(* C4, as claimed: every fatal failure exits non-zero, a control-plane      *)
(* failure (task lookup, authorization-token request) never with the code   *)
(* of a runtime/pull failure or the generic code, and a runtime/pull        *)
(* failure never with the generic code.                                     *)
C4_ControlPlaneCodeDistinct ==
    Failed =>
        /\ exitCode # exitCodeOk
        /\ failedAt \in { "describe", "token" } =>
               exitCode \notin { exitCodeDockerError, exitCodeError }
        /\ failedAt \in { "decode", "pull" } => exitCode # exitCodeError

(* C4, amended: every failure that ends the run exits non-zero; a task      *)
(* lookup failure exits with the AWS code, which no other failure uses and  *)
(* which is neither the docker nor the generic code; a failure of the       *)
(* authorization-token request, of the token decoding or of the image pull  *)
(* exits with the docker code, which is not the generic code; a config file *)
(* failure (reading it, or finding the directory to write it to) exits with *)
(* the generic code.                                                        *)
C4_ExitCodeClasses ==
    Failed =>
        /\ exitCode # exitCodeOk
        /\ failedAt = "describe" =>
               exitCode \notin { exitCodeDockerError, exitCodeError }
        /\ failedAt # "describe" => exitCode # exitCodeAWSError
        /\ failedAt \in { "token", "decode", "pull" } =>
               exitCode = exitCodeDockerError /\ exitCode # exitCodeError
        /\ failedAt \in { "config", "getwd" } => exitCode = exitCodeError

C4_Witness ==
    pc = "exited" /\ failedAt = "token" /\ exitCode = exitCodeDockerError

IdentityChosen == sess # NoSess

(* C5, as claimed: profile and region are the flag's value when the flag is *)
(* given, else the environment variable's, else the default (or the config  *)
(* file's value).                                                           *)
C5_FlagBeatsEnvironment ==
    IdentityChosen =>
        /\ sess.Profile =
               IF idIn.flagProfile # None THEN idIn.flagProfile
               ELSE IF idIn.envProfile # None THEN idIn.envProfile
               ELSE IF cfgVals.profile # None THEN cfgVals.profile
               ELSE DefaultProfile
        /\ sess.Region =
               IF idIn.flagRegion # None THEN idIn.flagRegion
               ELSE IF idIn.envRegion # None THEN idIn.envRegion
               ELSE IF cfgVals.region # None THEN cfgVals.region
               ELSE DefaultRegion

(* C5, amended: profile and region are the environment variable's value     *)
(* (AWS_PROFILE / AWS_REGION) when it is set, else the flag's, else the      *)
(* config file's, else the default; they stay as chosen for the whole run.  *)
C5_EnvironmentBeatsFlag ==
    IdentityChosen =>
        /\ sess.Profile =
               IF idIn.envProfile # None THEN idIn.envProfile
               ELSE IF idIn.flagProfile # None THEN idIn.flagProfile
               ELSE IF cfgVals.profile # None THEN cfgVals.profile
               ELSE DefaultProfile
        /\ sess.Region =
               IF idIn.envRegion # None THEN idIn.envRegion
               ELSE IF idIn.flagRegion # None THEN idIn.flagRegion
               ELSE IF cfgVals.region # None THEN cfgVals.region
               ELSE DefaultRegion

C5_Witness ==
    /\ IdentityChosen
    /\ idIn.flagProfile # None /\ idIn.envProfile # None
    /\ idIn.flagRegion # None /\ idIn.envRegion = None
    /\ pc = "wait"

MountsOffset ==
    3 + 2 * Len(task.Environment) + (IF roleCreds.ok THEN 6 ELSE 0)

(* C8: every mount spec with a colon yields -v source:destination, split on *)
(* its first colon; a mount spec without a colon is rejected as a caller    *)
(* error, with a message, before the container runtime is launched.         *)
C8_MalformedMountRejected ==
    (mounts # <<>>) =>
        IF \E i \in 1..Len(mounts) : IndexOf(mounts[i], ":") = 0
        THEN /\ pc = "exited"
             /\ failedAt = "mounts"
             /\ errOut = "message"
             /\ exitCode \in { exitCodeError, exitCodeFlagParseError }
             /\ ~ child.launched
        ELSE \A i \in 1..Len(mounts) :
                /\ dockerArgs[MountsOffset + 2 * i - 1] = Tok_v
                /\ dockerArgs[MountsOffset + 2 * i]
                      = Before(mounts[i], ":") \o <<":">> \o After(mounts[i], ":")

RegistryAuthFatal(at) ==
    /\ pc = "exited"
    /\ failedAt = at
    /\ exitCode = exitCodeDockerError
    /\ errOut = "message"
    /\ ~ child.launched

(* C9: the decoded token is split on its first colon into username and      *)
(* password; when the token does not decode, or has no two parts, the run   *)
(* ends with a fatal registry-auth failure: a message on the error stream,  *)
(* the docker exit code, no pull and no container run.                      *)
C9_RegistryAuthFailureFatal ==
    /\ (token # <<>> /\ ~ Base64Decode(token).ok /\ pc # "decode")
           => RegistryAuthFatal("decode")
    /\ (auth.set \/ failedAt = "split") =>
           IF IndexOf(data, Colon) # 0
           THEN /\ auth.set
                /\ auth.Username = Before(data, Colon)
                /\ auth.Password = After(data, Colon)
           ELSE RegistryAuthFatal("split")

RECURSIVE ExpectedEnvironment(_)
ExpectedEnvironment(es) ==
    IF es = <<>> THEN <<>>
    ELSE <<Tok_e, Head(es).Name \o <<"=">> \o Head(es).Value>>
         \o ExpectedEnvironment(Tail(es))

RECURSIVE ExpectedPairs(_, _, _)
ExpectedPairs(specs, sep, flag) ==
    IF specs = <<>> THEN <<>>
    ELSE <<flag, Before(Head(specs), sep) \o <<sep>> \o After(Head(specs), sep)>>
         \o ExpectedPairs(Tail(specs), sep, flag)

ExpectedRole ==
    IF assume = "ok"
    THEN << Tok_e, Append(Key_AccessKeyId, "=") \o roleCreds.AccessKeyId,
            Tok_e, Append(Key_SecretAccessKey, "=") \o roleCreds.SecretAccessKey,
            Tok_e, Append(Key_SessionToken, "=") \o roleCreds.SessionToken >>
    ELSE <<>>

(* C10: the arguments handed to the runtime are, in this order: run -it     *)
(* --rm; one -e name=value per container-definition variable in its order;  *)
(* the three role credential -e entries when the role was assumed; one -v   *)
(* per user mount in the order given; one -e per user override in the order *)
(* given, split on the first '=' only; the image; the command tokens.       *)
C10_ArgumentOrder ==
    child.launched =>
        child.argv = <<Tok_run, Tok_it, Tok_rm>>
                     \o ExpectedEnvironment(task.Environment)
                     \o ExpectedRole
                     \o ExpectedPairs(mounts, ":", Tok_v)
                     \o ExpectedPairs(envs, "=", Tok_e)
                     \o <<task.Image>>
                     \o command

C10_Witness ==
    /\ child.launched
    /\ assume = "ok"
    /\ task.Environment # <<>>
    /\ Len(mounts) = 2 /\ mounts[1] # mounts[2]
    /\ Len(envs) = 2 /\ envs[1] # envs[2]
    /\ \E i \in 1..2 : Len(Split(envs[i], "=")) = 3

------------------------------------------------------------------------------
(* Properties of the credential cache provider *)

(* C6: an invocation that reads, for its key, a record with expiry > now +  *)
(* margin returns exactly that record without calling the provider chain;   *)
(* any other read returns nothing and goes on to the provider chain.        *)
C6_FreshHitSkipsChain ==
    /\ [][ \A p \in Procs :
             (cpc[p] = "reading" /\ cpc'[p] # "reading") =>
                 LET rec == cacheFile[ckey[p]]
                 IN  IF rec.st = "full" /\ rec.expiry > now + Margin
                     THEN /\ cpc'[p] = "done"
                          /\ hit'[p]
                          /\ got'[p] = rec
                          /\ chainCalls'[p] = 0
                     ELSE /\ cpc'[p] = "chain"
                          /\ ~ hit'[p]
                          /\ got'[p] = got[p] ]_vars
    /\ [](\A p \in Procs : hit[p] => (cpc[p] = "done" /\ chainCalls[p] = 0))

C6_Witness ==
    \E p \in Procs : hit[p] /\ cpc[p] = "done" /\ got[p].by \notin { 0, p }

CacheIntact ==
    /\ \A k \in Keys : cacheFile[k].st \in { "absent", "full" }
    /\ \A p \in Procs :
          /\ cpc[p] = "done" => got[p].st = "full"
          /\ cpc[p] \in { "chain", "persist", "writing", "rename" }
                => lockHolder # p

(* C7: with concurrent invocations the cache never holds a partial record,  *)
(* what an invocation returns is a complete record, no invocation holds the *)
(* cache lock while it waits for the provider chain, and every invocation   *)
(* comes to an end.                                                         *)
C7_NoCorruptionNoDeadlock ==
    /\ []CacheIntact
    /\ \A p \in Procs : <>(cpc[p] \in { "done", "failed" })

C7_Witness ==
    \E p, q \in Procs :
        /\ p # q
        /\ ckey[p] = ckey[q]
        /\ cpc[p] = "writing" /\ tmpFile[p].st = "partial"
        /\ cpc[q] = "reading"

=============================================================================
